---- MODULE Spec2Model ----
(***************************************************************************)
(* Kinematics core of the 6-DOF robotic arm: the DH chain model            *)
(* (core/robot_model.py), the forward-kinematics evaluator                 *)
(* (core/transformations.py) and the damped-least-squares IK solver        *)
(* (core/ik_solver.py).                                                    *)
(*                                                                         *)
(* Numbers.  The program computes in IEEE doubles; here every real is a    *)
(* fixed-point integer with six decimals: lengths in micrometres, angles   *)
(* in microradians, matrix entries in millionths.  Every product and       *)
(* quotient is rounded to the nearest representable value, the way a float *)
(* operation is; products and quotients are formed from three-digit halves *)
(* so that no intermediate value leaves the 32-bit range.                  *)
(***************************************************************************)
EXTENDS Integers, Sequences, FiniteSets, TLC

\* Python's None, and a present optional value.
None == <<>>
Some(x) == <<x>>

\* One unit of the fixed-point representation is 1/Scale.
Scale == 1000000

\* math.pi / 2, math.pi, 2 * math.pi in microradians.
HalfPi == 1570796
Pi == 2 * HalfPi
TwoPi == 2 * Pi

\* abs()
Abs(x) == IF x < 0 THEN -x ELSE x

\* The integer quotient n / d of n >= 0 by d > 0, rounded to nearest.
RoundedQuotient(n, d) == (n \div d) + (IF 2 * (n % d) >= d THEN 1 ELSE 0)

\* The integer quotient a / b rounded to nearest, for either sign.
Div(a, b) ==
    IF (a < 0) = (b < 0) THEN RoundedQuotient(Abs(a), Abs(b))
    ELSE -RoundedQuotient(Abs(a), Abs(b))

\* (hi * 10^6 + mid * 10^3 + low) / Scale, rounded to nearest.
MulParts(hi, mid, low) ==
    hi + (mid \div 1000) + RoundedQuotient((mid % 1000) * 1000 + low, Scale)

\* The product of (ah * 10^3 + al) / Scale and (bh * 10^3 + bl) / Scale.
MulAbs(ah, al, bh, bl) == MulParts(ah * bh, ah * bl + al * bh, al * bl)

\* Float product a * b of two fixed-point numbers.
Mul(a, b) ==
    IF (a < 0) = (b < 0)
    THEN MulAbs(Abs(a) \div 1000, Abs(a) % 1000, Abs(b) \div 1000, Abs(b) % 1000)
    ELSE -MulAbs(Abs(a) \div 1000, Abs(a) % 1000, Abs(b) \div 1000, Abs(b) % 1000)

\* Long division: k more decimal digits of r / b appended to the quotient q.
RECURSIVE QuotDigits(_, _, _, _)
QuotDigits(q, r, b, k) ==
    IF k = 0 THEN q + (IF 2 * r >= b THEN 1 ELSE 0)
    ELSE QuotDigits(10 * q + ((10 * r) \div b), (10 * r) % b, b, k - 1)

\* Float quotient a / b of two fixed-point numbers, b # 0.
Quot(a, b) ==
    IF (a < 0) = (b < 0) THEN QuotDigits(Abs(a) \div Abs(b), Abs(a) % Abs(b), Abs(b), 6)
    ELSE -QuotDigits(Abs(a) \div Abs(b), Abs(a) % Abs(b), Abs(b), 6)

\* The power series of sine (n = 2 after the term x) and cosine (n = 1 after the
\* term 1): each term is the one before times -x^2 / (n (n + 1)).
RECURSIVE SinSeries(_, _, _, _), SinNext(_, _, _, _)
SinSeries(term, x2, n, acc) ==
    IF n > 16 \/ term = 0 THEN acc
    ELSE SinNext(-Div(Mul(term, x2), n * (n + 1)), x2, n, acc)

\* The series continued with its next term.
SinNext(nxt, x2, n, acc) == SinSeries(nxt, x2, n + 2, acc + nxt)

\* The cosine of an angle of [0, pi/4].
CosReduced(f) == SinSeries(Scale, Mul(f, f), 1, Scale)

\* The sine of an angle of [-pi/2, pi/2].
SinReduced(f) ==
    IF 2 * Abs(f) <= HalfPi THEN SinSeries(f, Mul(f, f), 2, f)
    ELSE IF f > 0 THEN CosReduced(HalfPi - f)
    ELSE -CosReduced(HalfPi + f)

\* An angle of [0, 2 pi) brought to (-pi, pi], and one of (-pi, pi] to [-pi/2, pi/2].
WrapAngle(r) == IF r > Pi THEN r - TwoPi ELSE r
FoldAngle(r) == IF r > HalfPi THEN Pi - r ELSE IF r < -HalfPi THEN -Pi - r ELSE r

\* math.sin, math.cos
sin(x) == SinReduced(FoldAngle(WrapAngle(x % TwoPi)))
cos(x) == sin(x + HalfPi)

\* The two-word number <<hi, lo>> = hi * 10^6 + lo, lo < 10^6, for hi * 10^6 + low.
Carry(hi, low) == <<hi + (low \div 1000000), low % 1000000>>
\* The square of x = xh * 10^3 + xl >= 0 as a two-word number.
SquareParts(xh, xl) ==
    Carry(xh * xh + ((2 * xh * xl) \div 1000), ((2 * xh * xl) % 1000) * 1000 + xl * xl)
Square(x) == SquareParts(x \div 1000, x % 1000)

\* Sum and order of two-word numbers.
Plus(p, q) == Carry(p[1] + q[1], p[2] + q[2])
Leq(p, q) == p[1] < q[1] \/ (p[1] = q[1] /\ p[2] <= q[2])

\* Largest r of [lo, hi] with r * r <= n, by bisection; n a two-word number.
RECURSIVE ISqrt(_, _, _)
ISqrt(n, lo, hi) ==
    IF lo >= hi THEN lo
    ELSE IF Leq(Square((lo + hi + 1) \div 2), n)
         THEN ISqrt(n, (lo + hi + 1) \div 2, hi)
         ELSE ISqrt(n, lo, ((lo + hi + 1) \div 2) - 1)

\* The root r of n rounded to nearest rather than down.
RoundRoot(n, r) == IF Leq(Plus(Square(r), <<0, r + 1>>), n) THEN r + 1 ELSE r

\* math.sqrt of a two-word number below 46 * 46.
sqrt(n) == RoundRoot(n, ISqrt(n, 0, 46000000))

\* np.linalg.norm of a 3-vector.
norm(v) == sqrt(Plus(Square(Abs(v[1])), Plus(Square(Abs(v[2])), Square(Abs(v[3])))))

\* np.eye(4)
Eye4 ==
    << <<Scale, 0, 0, 0>>, <<0, Scale, 0, 0>>, <<0, 0, Scale, 0>>, <<0, 0, 0, Scale>> >>

\* Entry (i, j) and row i of A @ B for 4x4 matrices.
MatEntry(A, B, i, j) ==
    Mul(A[i][1], B[1][j]) + Mul(A[i][2], B[2][j]) + Mul(A[i][3], B[3][j])
        + Mul(A[i][4], B[4][j])

MatRow(A, B, i) ==
    <<MatEntry(A, B, i, 1), MatEntry(A, B, i, 2), MatEntry(A, B, i, 3), MatEntry(A, B, i, 4)>>

\* A @ B for 4x4 matrices.
MatMul(A, B) == <<MatRow(A, B, 1), MatRow(A, B, 2), MatRow(A, B, 3), MatRow(A, B, 4)>>

\* Entry (i, j) and row i of A @ B for 3x3 matrices.
MatEntry3(A, B, i, j) ==
    Mul(A[i][1], B[1][j]) + Mul(A[i][2], B[2][j]) + Mul(A[i][3], B[3][j])

MatRow3(A, B, i) == <<MatEntry3(A, B, i, 1), MatEntry3(A, B, i, 2), MatEntry3(A, B, i, 3)>>

\* A @ B for 3x3 matrices.
MatMul3(A, B) == <<MatRow3(A, B, 1), MatRow3(A, B, 2), MatRow3(A, B, 3)>>

\* T[0:3, 3]
Translation(T) == <<T[1][4], T[2][4], T[3][4]>>

\* The DH matrix from the cosines and sines of alpha and theta.
dh_matrix(a, d, ca, sa, ct, st) ==
    << <<ct, -Mul(st, ca), Mul(st, sa), Mul(a, ct)>>,
       <<st, Mul(ct, ca), -Mul(ct, sa), Mul(a, st)>>,
       <<0, sa, ca, d>>,
       <<0, 0, 0, Scale>> >>

\* dh_transform with the cosine and the sine of theta exchanged.
dh_transform_swapped(a, d, alpha, theta) ==
    dh_matrix(a, d, cos(alpha), sin(alpha), sin(theta), cos(theta))

\* Standard DH transformation matrix.
dh_transform(a, d, alpha, theta) ==
    dh_matrix(a, d, cos(alpha), sin(alpha), cos(theta), sin(theta))

\* dict.get(key, default)
Get(off, key, default) == IF key \in DOMAIN off THEN off[key] ELSE default

\* rotation_rpy composed in the opposite order, Rx @ Ry @ Rz.
rotation_rpy_reversed(cx, sx, cy, sy, cz, sz) ==
    MatMul3(MatMul3(<< <<Scale, 0, 0>>, <<0, cx, -sx>>, <<0, sx, cx>> >>,
                    << <<cy, 0, sy>>, <<0, Scale, 0>>, <<-sy, 0, cy>> >>),
            << <<cz, -sz, 0>>, <<sz, cz, 0>>, <<0, 0, Scale>> >>)

\* R = Rz @ Ry @ Rx from the cosines and sines of rx, ry, rz.
rotation_rpy(cx, sx, cy, sy, cz, sz) ==
    MatMul3(MatMul3(<< <<cz, -sz, 0>>, <<sz, cz, 0>>, <<0, 0, Scale>> >>,
                    << <<cy, 0, sy>>, <<0, Scale, 0>>, <<-sy, 0, cy>> >>),
            << <<Scale, 0, 0>>, <<0, cx, -sx>>, <<0, sx, cx>> >>)

\* T = eye(4) with T[0:3, 0:3] = R and T[0:3, 3] = [tx, ty, tz].
rigid_transform(R, tx, ty, tz) ==
    << <<R[1][1], R[1][2], R[1][3], tx>>,
       <<R[2][1], R[2][2], R[2][3], ty>>,
       <<R[3][1], R[3][2], R[3][3], tz>>,
       <<0, 0, 0, Scale>> >>

\* offset_row_to_matrix building the matrix from tx..rz whatever is_identity says.
offset_row_to_matrix_by_values(off) ==
    rigid_transform(
        rotation_rpy(cos(Get(off, "rx", 0)), sin(Get(off, "rx", 0)),
                     cos(Get(off, "ry", 0)), sin(Get(off, "ry", 0)),
                     cos(Get(off, "rz", 0)), sin(Get(off, "rz", 0))),
        Get(off, "tx", 0), Get(off, "ty", 0), Get(off, "tz", 0))

\* Offset matrix O_i of an offset row: identity, or R = Rz * Ry * Rx with translation.
offset_row_to_matrix(off) ==
    IF Get(off, "is_identity", FALSE) THEN Eye4
    ELSE rigid_transform(
             rotation_rpy(cos(Get(off, "rx", 0)), sin(Get(off, "rx", 0)),
                          cos(Get(off, "ry", 0)), sin(Get(off, "ry", 0)),
                          cos(Get(off, "rz", 0)), sin(Get(off, "rz", 0))),
             Get(off, "tx", 0), Get(off, "ty", 0), Get(off, "tz", 0))

\* A failed assert.
AssertionError == [ok |-> FALSE, exc |-> "AssertionError"]

\* theta_val taking the supplied angle for every joint.
theta_val_supplied(row, th_i) == th_i

\* Line 112: the DH row's own theta when it has one, the supplied angle otherwise.
theta_val(row, th_i) == IF row.theta # None THEN row.theta[1] ELSE th_i

\* Lines 110-118: the A matrix of joint i.
joint_matrix(rows, th, i) ==
    dh_transform(rows[i].a, rows[i].d, rows[i].alpha, theta_val(rows[i], th[i]))

\* fk_loop carrying the actual frame, offset included, on to the next joint.
RECURSIVE fk_loop_through_actual(_, _, _, _, _, _, _)
fk_loop_through_actual(rows, th, offs, i, T_dh_cumulative, T_dh_list, T_actual_list) ==
    IF i = Len(rows)
    THEN [ok       |-> TRUE,
          T_dh     |-> Append(T_dh_list, T_dh_cumulative),
          T_actual |-> Append(T_actual_list,
                              MatMul(T_dh_cumulative, offset_row_to_matrix(offs[i])))]
    ELSE fk_loop_through_actual(rows, th, offs, i + 1,
                 MatMul(MatMul(T_dh_cumulative, offset_row_to_matrix(offs[i])),
                        joint_matrix(rows, th, i + 1)),
                 Append(T_dh_list, T_dh_cumulative),
                 Append(T_actual_list,
                        MatMul(T_dh_cumulative, offset_row_to_matrix(offs[i]))))

\* The loop of forward_kinematics at joint i, T_dh_cumulative being the pure DH
\* transform up to and including joint i: lines 109-138.
RECURSIVE fk_loop(_, _, _, _, _, _, _)
fk_loop(rows, th, offs, i, T_dh_cumulative, T_dh_list, T_actual_list) ==
    IF i = Len(rows)
    THEN [ok       |-> TRUE,
          T_dh     |-> Append(T_dh_list, T_dh_cumulative),
          T_actual |-> Append(T_actual_list,
                              MatMul(T_dh_cumulative, offset_row_to_matrix(offs[i])))]
    ELSE fk_loop(rows, th, offs, i + 1,
                 MatMul(T_dh_cumulative, joint_matrix(rows, th, i + 1)),
                 Append(T_dh_list, T_dh_cumulative),
                 Append(T_actual_list,
                        MatMul(T_dh_cumulative, offset_row_to_matrix(offs[i]))))

\* Lines 100-101: offsets, or an identity offset per joint when offsets is None.
offsets_or_identity(offs, n) ==
    IF offs = None THEN [i \in 1..n |-> [is_identity |-> TRUE]] ELSE offs[1]

\* fk_checked rejecting only an offsets list that is too short.
fk_checked_too_short(rows, th, offs_in) ==
    IF Len(offs_in) < Len(rows) THEN AssertionError
    ELSE IF Len(rows) = 0 THEN [ok |-> TRUE, T_dh |-> <<>>, T_actual |-> <<>>]
    ELSE fk_loop(rows, th, offs_in, 1, MatMul(Eye4, joint_matrix(rows, th, 1)), <<>>, <<>>)

\* forward_kinematics past its first assert.
fk_checked(rows, th, offs_in) ==
    IF Len(offs_in) # Len(rows) THEN AssertionError
    ELSE IF Len(rows) = 0 THEN [ok |-> TRUE, T_dh |-> <<>>, T_actual |-> <<>>]
    ELSE fk_loop(rows, th, offs_in, 1, MatMul(Eye4, joint_matrix(rows, th, 1)), <<>>, <<>>)

\* forward_kinematics(dh_rows, thetas, offsets): both frame lists, or a failed assert.
forward_kinematics(rows, th, offs) ==
    IF Len(th) # Len(rows) THEN AssertionError
    ELSE fk_checked(rows, th, offsets_or_identity(offs, Len(rows)))

\* The chain m with the frames of a forward_kinematics result, or the exception.
with_transforms(m, fk) ==
    IF fk.ok THEN [m EXCEPT !.T_dh = fk.T_dh, !.T_actual = fk.T_actual] ELSE fk

\* RobotModel.update_transforms: recompute both frame lists from the current angles.
update_transforms(m) ==
    with_transforms(m, forward_kinematics(m.dh_rows, m.thetas, m.offsets))

\* RobotModel.__init__: the chain at all-zero angles, or the failed assert of its
\* first update_transforms.  Joints are numbered from 1 here (from 0 in the code).
RobotModel(rows, offs) ==
    update_transforms(
        [ok              |-> TRUE,
         dh_rows         |-> rows,
         offsets         |-> offs,
         n_joints        |-> Len(rows),
         thetas          |-> [i \in 1..Len(rows) |-> 0],
         variable_joints |-> {i \in 1..Len(rows) : rows[i].theta = None},
         T_dh            |-> <<>>,
         T_actual        |-> <<>>])

\* Lines 41-43: the first n slots of old, slot i overwritten when values has one.
RECURSIVE overwritten(_, _, _)
overwritten(old, values, n) ==
    IF n = 0 THEN <<>>
    ELSE Append(overwritten(old, values, n - 1),
                IF n <= Len(values) THEN values[n] ELSE old[n])

\* set_all_thetas writing the slots and leaving the cached frames as they are.
set_all_thetas_stale(m, values) ==
    [m EXCEPT !.thetas = overwritten(m.thetas, values, Len(m.thetas))]

\* RobotModel.set_all_thetas: overwrite the leading slots, then update_transforms.
set_all_thetas(m, values) ==
    update_transforms([m EXCEPT !.thetas = overwritten(m.thetas, values, Len(m.thetas))])

\* set_theta writing the slot and leaving the cached frames as they are.
set_theta_stale(m, joint_idx, value) ==
    IF joint_idx < 0 \/ joint_idx >= m.n_joints THEN m
    ELSE IF (joint_idx + 1) \in m.variable_joints
         THEN [m EXCEPT !.thetas[joint_idx + 1] = value]
         ELSE m

\* RobotModel.set_theta: joint_idx counts from 0, as in the code; an index out of
\* range or naming a fixed joint is ignored.
set_theta(m, joint_idx, value) ==
    IF joint_idx < 0 \/ joint_idx >= m.n_joints THEN m
    ELSE IF (joint_idx + 1) \in m.variable_joints
         THEN update_transforms([m EXCEPT !.thetas[joint_idx + 1] = value])
         ELSE m

\* T_actual[-1][0:3, 3]: the end-effector position of a forward_kinematics result.
end_effector(fk) == Translation(fk.T_actual[Len(fk.T_actual)])

\* The finite-difference step of _compute_jacobian_numerical.  The code's default,
\* 1e-6 rad, is one unit of the fixed-point representation, where a difference
\* quotient has no digits left; the step here, 1e-3 rad, resolves it to about
\* 0.002, as the float quotient is resolved far below the solver's tolerance.
epsilon == 1000

\* Line 185: (pos_perturbed - pos_current) / epsilon.
difference_quotient(pos_perturbed, pos_current) ==
    <<Quot(pos_perturbed[1] - pos_current[1], epsilon),
      Quot(pos_perturbed[2] - pos_current[2], epsilon),
      Quot(pos_perturbed[3] - pos_current[3], epsilon)>>

\* The first n slots of th, each increased by epsilon.
RECURSIVE all_perturbed(_, _)
all_perturbed(th, n) ==
    IF n = 0 THEN <<>> ELSE Append(all_perturbed(th, n - 1), th[n] + epsilon)

\* The angles th with the slots 1..i increased by epsilon.
perturbed_through(th, i) == [k \in 1..Len(th) |-> IF k <= i THEN th[k] + epsilon ELSE th[k]]

\* jacobian_column perturbing cumulatively: slot i on top of the slots before it.
jacobian_column_cumulative(m, th, i, pos_current) ==
    difference_quotient(
        end_effector(forward_kinematics(m.dh_rows, perturbed_through(th, i), m.offsets)),
        pos_current)

\* Lines 173-185: column i of the Jacobian, slot i of the given angles perturbed.
jacobian_column(m, th, i, pos_current) ==
    difference_quotient(
        end_effector(forward_kinematics(m.dh_rows, [th EXCEPT ![i] = th[i] + epsilon],
                                        m.offsets)),
        pos_current)

\* Lines 171-185: the list of the first i columns.
RECURSIVE jacobian_columns(_, _, _, _)
jacobian_columns(m, th, i, pos_current) ==
    IF i = 0 THEN <<>>
    ELSE Append(jacobian_columns(m, th, i - 1, pos_current),
                jacobian_column(m, th, i, pos_current))

\* Row r of the matrix with the given columns, through column i.
RECURSIVE row_of(_, _, _)
row_of(cols, r, i) == IF i = 0 THEN <<>> ELSE Append(row_of(cols, r, i - 1), cols[i][r])

\* The 3 x N matrix with the given columns.
from_columns(cols) ==
    <<row_of(cols, 1, Len(cols)), row_of(cols, 2, Len(cols)), row_of(cols, 3, Len(cols))>>

\* Lines 168-187: the Jacobian from the unperturbed end-effector position.
jacobian_from(m, th, pos_current) ==
    from_columns(jacobian_columns(m, th, m.n_joints, pos_current))

\* UniversalIKSolver._compute_jacobian_numerical.
compute_jacobian_numerical(m, th) ==
    jacobian_from(m, th, end_effector(forward_kinematics(m.dh_rows, th, m.offsets)))

\* jacobian_call as it would be without the copy of line 173: the caller's array is
\* perturbed in place.
jacobian_call_in_place(m, th) ==
    IF Len(th) # Len(m.dh_rows) THEN AssertionError
    ELSE [ok |-> TRUE, J |-> compute_jacobian_numerical(m, th),
          thetas |-> all_perturbed(th, Len(th)), model |-> m]

\* A call of _compute_jacobian_numerical(thetas) on the solver of the chain m: the
\* assert of forward_kinematics at line 160 fails for a vector of another length;
\* otherwise the Jacobian, with the caller's array (line 173 perturbs a copy) and
\* the chain (only read) as the call leaves them.
jacobian_call(m, th) ==
    IF Len(th) # Len(m.dh_rows) THEN AssertionError
    ELSE [ok |-> TRUE, J |-> compute_jacobian_numerical(m, th), thetas |-> th, model |-> m]

\* Sum of u[k] * v[k] over k = 1..n.
RECURSIVE Dot(_, _, _)
Dot(u, v, n) == IF n = 0 THEN 0 ELSE Dot(u, v, n - 1) + Mul(u[n], v[n])

\* Entry (r, c) of J @ J.T
normal_entry(J, r, c) == Dot(J[r], J[c], Len(J[r]))

\* J @ J.T + lambda_damping * np.eye(3)
damped_normal_matrix(J, lambda_damping) ==
    << <<normal_entry(J, 1, 1) + lambda_damping, normal_entry(J, 1, 2), normal_entry(J, 1, 3)>>,
       <<normal_entry(J, 2, 1), normal_entry(J, 2, 2) + lambda_damping, normal_entry(J, 2, 3)>>,
       <<normal_entry(J, 3, 1), normal_entry(J, 3, 2), normal_entry(J, 3, 3) + lambda_damping>> >>

\* Row of rows c..3 with the largest |entry| in column c (the first one on a tie).
PivotRow(M, c) ==
    CHOOSE p \in c..3 :
        /\ \A q \in c..3 : Abs(M[p][c]) >= Abs(M[q][c])
        /\ \A q \in c..(p - 1) : Abs(M[q][c]) < Abs(M[p][c])

\* Row r of M after rows i and j are exchanged.
SwappedRow(M, i, j, r) == IF r = i THEN M[j] ELSE IF r = j THEN M[i] ELSE M[r]

\* Rows i and j exchanged.
SwapRows(M, i, j) == <<SwappedRow(M, i, j, 1), SwappedRow(M, i, j, 2), SwappedRow(M, i, j, 3)>>

\* The pivot row of column c brought to row c.
SwapToPivot(M, c) == SwapRows(M, c, PivotRow(M, c))

\* Entry j of row r minus f times the pivot row c.
EliminateEntry(M, r, c, f, j) == IF j <= c THEN 0 ELSE M[r][j] - Mul(f, M[c][j])

\* Row r minus f times the pivot row c.
EliminateRow(M, r, c, f) ==
    <<EliminateEntry(M, r, c, f, 1), EliminateEntry(M, r, c, f, 2),
      EliminateEntry(M, r, c, f, 3), EliminateEntry(M, r, c, f, 4)>>

\* Row r after the elimination step on column c.
EliminatedRow(M, r, c) ==
    IF r <= c THEN M[r] ELSE EliminateRow(M, r, c, Quot(M[r][c], M[c][c]))

\* One elimination step on column c of the augmented 3x4 matrix, pivot row first.
Eliminate(M, c) == <<EliminatedRow(M, 1, c), EliminatedRow(M, 2, c), EliminatedRow(M, 3, c)>>

\* The exception np.linalg.solve raises on an exactly singular matrix.
LinAlgError == [ok |-> FALSE, exc |-> "LinAlgError"]

\* Back substitution in the upper triangular system U.
back_substitute_1(U, x2, x3) ==
    [ok |-> TRUE,
     x  |-> <<Quot(U[1][4] - Mul(U[1][2], x2) - Mul(U[1][3], x3), U[1][1]), x2, x3>>]

back_substitute_2(U, x3) ==
    back_substitute_1(U, Quot(U[2][4] - Mul(U[2][3], x3), U[2][2]), x3)

back_substitute(U) ==
    IF U[3][3] = 0 THEN LinAlgError
    ELSE back_substitute_2(U, Quot(U[3][4], U[3][3]))

\* The elimination from column 2 on, and from column 1 on, pivot rows in place.
lu_column_2(P2) ==
    IF P2[2][2] = 0 THEN LinAlgError ELSE back_substitute(Eliminate(P2, 2))

lu_column_1(P1) ==
    IF P1[1][1] = 0 THEN LinAlgError
    ELSE lu_column_2(SwapToPivot(Eliminate(P1, 1), 2))

\* np.linalg.solve(A, b) for a 3x3 matrix: LU with partial pivoting, then back
\* substitution; LinAlgError when a pivot is exactly zero.
linalg_solve(A, b) ==
    lu_column_1(SwapToPivot(<< <<A[1][1], A[1][2], A[1][3], b[1]>>,
                               <<A[2][1], A[2][2], A[2][3], b[2]>>,
                               <<A[3][1], A[3][2], A[3][3], b[3]>> >>, 1))

\* The first n entries of J.T @ delta_x
RECURSIVE joint_update(_, _, _)
joint_update(J, delta_x, n) ==
    IF n = 0 THEN <<>>
    ELSE Append(joint_update(J, delta_x, n - 1),
                Mul(J[1][n], delta_x[1]) + Mul(J[2][n], delta_x[2])
                    + Mul(J[3][n], delta_x[3]))

\* stepped with the sign of the update reversed: thetas - step_size * delta_theta
RECURSIVE stepped_back(_, _, _, _)
stepped_back(th, step, delta_theta, n) ==
    IF n = 0 THEN <<>>
    ELSE Append(stepped_back(th, step, delta_theta, n - 1), th[n] - Mul(step, delta_theta[n]))

\* The first n entries of thetas + step_size * delta_theta
RECURSIVE stepped(_, _, _, _)
stepped(th, step, delta_theta, n) ==
    IF n = 0 THEN <<>>
    ELSE Append(stepped(th, step, delta_theta, n - 1), th[n] + Mul(step, delta_theta[n]))

\* Lines 68-78 of solve: target_pos minus the end-effector position at the working angles.
error_from(target, current_pos) ==
    <<target[1] - current_pos[1], target[2] - current_pos[2], target[3] - current_pos[3]>>

position_error(m, th, target) ==
    error_from(target, end_effector(forward_kinematics(m.dh_rows, th, m.offsets)))

\* has_converged with the comparison reversed.
has_converged_reversed(err, tol) == err > tol

\* Line 87 of solve: the convergence test.
has_converged(err, tol) == err < tol

\* try_update as it would be if the working angles were the chain's own list,
\* updated in place.
try_update_in_place(m, th, J, sol, step) ==
    IF sol.ok
    THEN [ok |-> TRUE,
          model |-> [m EXCEPT !.thetas = stepped(th, step, joint_update(J, sol.x, Len(th)),
                                                 Len(th))],
          thetas |-> stepped(th, step, joint_update(J, sol.x, Len(th)), Len(th))]
    ELSE [ok |-> FALSE, model |-> m, thetas |-> th]

\* Lines 109-125 of solve: the outcome of the try block.  A LinAlgError is caught
\* and leaves the working angles as they were.  The chain is only read: the
\* outcome carries it back unchanged.
try_update(m, th, J, sol, step) ==
    IF sol.ok
    THEN [ok |-> TRUE, model |-> m,
          thetas |-> stepped(th, step, joint_update(J, sol.x, Len(th)), Len(th))]
    ELSE [ok |-> FALSE, model |-> m, thetas |-> th]

\* Lines 107-125 of solve, from the Jacobian.
damped_update(m, th, J, error_vector, lambda_damping, step) ==
    try_update(m, th, J,
               linalg_solve(damped_normal_matrix(J, lambda_damping), error_vector), step)

\* Lines 101-125 of solve: the damped least-squares update of the working angles.
solve_step(m, th, error_vector, lambda_damping, step) ==
    damped_update(m, th, compute_jacobian_numerical(m, th), error_vector,
                  lambda_damping, step)

\* return_converged counting the passes from one.
return_converged_from_one(k, err, history, th) ==
    [kind |-> "return", success |-> TRUE, thetas |-> th,
     info |-> [iterations |-> k + 1, final_error |-> err, error_history |-> history]]

\* Lines 93-98 of solve: the converged return.
return_converged(k, err, history, th) ==
    [kind |-> "return", success |-> TRUE, thetas |-> th,
     info |-> [iterations |-> k, final_error |-> err, error_history |-> history]]

\* return_not_converged reporting the first error norm instead of the last.
return_first_error(max_it, err, history, th) ==
    IF err = None THEN [kind |-> "raise", exc |-> "UnboundLocalError"]
    ELSE [kind |-> "return", success |-> FALSE, thetas |-> th,
          info |-> [iterations |-> max_it, final_error |-> history[1],
                    error_history |-> history]]

\* Lines 133-138 of solve: the return after the loop; error_norm is unbound, and
\* reading it raises, when the loop body never ran.
return_not_converged(max_it, err, history, th) ==
    IF err = None THEN [kind |-> "raise", exc |-> "UnboundLocalError"]
    ELSE [kind |-> "return", success |-> FALSE, thetas |-> th,
          info |-> [iterations |-> max_it, final_error |-> err[1],
                    error_history |-> history]]

\* max_reach summing the link lengths |a| alone.
RECURSIVE max_reach_links_only(_, _)
max_reach_links_only(rows, i) ==
    IF i = 0 THEN 0 ELSE max_reach_links_only(rows, i - 1) + Abs(rows[i].a)

\* Lines 204-206: the sum of |a| + |d| over the first i DH rows.
RECURSIVE max_reach(_, _)
max_reach(rows, i) ==
    IF i = 0 THEN 0 ELSE max_reach(rows, i - 1) + Abs(rows[i].a) + Abs(rows[i].d)

\* reachability without the 10% margin.
reachability_no_margin(distance, reach) ==
    [kind |-> "return", reachable |-> (distance <= reach), distance |-> distance]

\* Lines 209-211: reachable = distance <= max_reach * 1.1.
reachability(distance, reach) ==
    [kind |-> "return", reachable |-> (distance * 10 <= reach * 11),
     distance |-> distance]

\* UniversalIKSolver.check_reachability: (reachable, distance).
check_reachability(m, target) ==
    reachability(norm(target), max_reach(m.dh_rows, Len(m.dh_rows)))

(***************************************************************************)
(* Inputs.                                                                 *)
(***************************************************************************)
IdentityOffset ==
    [tx |-> 0, ty |-> 0, tz |-> 0, rx |-> 0, ry |-> 0, rz |-> 0, is_identity |-> TRUE]

\* create_test_robot_simple: d=0.5,a=0; a=1.0; a=0.8, all variable, identity offsets.
SimpleRows ==
    << [theta |-> None, alpha |-> 0, d |-> 500000, a |-> 0],
       [theta |-> None, alpha |-> 0, d |-> 0, a |-> 1000000],
       [theta |-> None, alpha |-> 0, d |-> 0, a |-> 800000] >>

SimpleOffsets == <<IdentityOffset, IdentityOffset, IdentityOffset>>

\* A chain like create_test_robot_with_offsets: a 90 degree twist, a fixed last
\* joint, an identity offset with stray values, offsets with and without all keys.
TwistRows ==
    << [theta |-> None, alpha |-> HalfPi, d |-> 300000, a |-> 0],
       [theta |-> None, alpha |-> 0, d |-> 0, a |-> 500000],
       [theta |-> Some(785398), alpha |-> 0, d |-> -100000, a |-> 700000] >>

TwistOffsets ==
    << [tx |-> 50000, ty |-> 0, tz |-> 0, rx |-> 0, ry |-> 0, rz |-> 0, is_identity |-> TRUE],
       [tx |-> 200000, rz |-> 785398, is_identity |-> FALSE],
       [tx |-> 100000, ty |-> 0, tz |-> 50000, rx |-> 0, ry |-> 523599, rz |-> 0,
        is_identity |-> FALSE] >>

\* A single link of one metre.
LinkRows == << [theta |-> None, alpha |-> 0, d |-> 0, a |-> 1000000] >>

\* Chains of one joint with a = 0, d = 0, alpha = 0: theta fixed at 0, and variable.
ZeroFixedRows == << [theta |-> Some(0), alpha |-> 0, d |-> 0, a |-> 0] >>
ZeroVariableRows == << [theta |-> None, alpha |-> 0, d |-> 0, a |-> 0] >>

\* Offset rows given to offset_row_to_matrix directly: the rows of the twisted chain,
\* a row turning about all three axes, and rows with keys missing.
OffsetRows ==
    { TwistOffsets[1], TwistOffsets[2], TwistOffsets[3],
      [tx |-> 100000, ty |-> -200000, tz |-> 300000, rx |-> 300000, ry |-> 523599,
       rz |-> 785398, is_identity |-> FALSE],
      [rx |-> 300000, tz |-> 100000],
      [ty |-> 400000, ry |-> -785398, rz |-> HalfPi] }

\* The DH tables given to forward_kinematics directly.
ChainTables == {SimpleRows, TwistRows, LinkRows, ZeroFixedRows, ZeroVariableRows}

\* The (dh_rows, offsets) tables the RobotModel of a solver is built from.
Configs ==
    { <<SimpleRows, Some(SimpleOffsets)>>,
      <<TwistRows, Some(TwistOffsets)>>,
      <<LinkRows, None>> }

\* Target positions [x, y, z] given to solve: the end-effector position of the
\* simple chain at rest, targets of test_multiple_targets and test_workspace_limits,
\* targets off the plane of the simple chain, a target 0.41 m from that rest
\* position, and a target far out of reach.
SolveTargets ==
    { <<1800000, 0, 500000>>, <<1000000, 500000, 500000>>, <<2500000, 0, 500000>>, <<1100000, 0, 0>>,
      <<600000, 700000, 1000000>>, <<1700000, 400000, 500000>>,
      <<10000000, 10000000, 10000000>> }

\* Target positions given to check_reachability: those of test_workspace_limits,
\* targets at 2.0 m and 2.5 m from the origin, and one at 1.1 m.
ReachTargets ==
    { <<2000000, 0, 500000>>, <<2500000, 0, 500000>>, <<2000000, 0, 0>>, <<2500000, 0, 0>>,
      <<1500000, 2000000, 0>>, <<1100000, 0, 0>>, <<1000000, 500000, 500000>> }

\* The default parameters of solve.
Defaults ==
    [max_iterations |-> 200, tolerance |-> 1000, lambda_damping |-> 100000,
     step_size |-> 500000]

\* Targets given to solve with its default parameters: targets of
\* test_multiple_targets and a target far out of reach.
DefaultTargets ==
    { <<1000000, 500000, 500000>>, <<1200000, 800000, 400000>>, <<1000000, 200000, 500000>>,
      <<10000000, 10000000, 10000000>> }

\* Most clicks of the + and - buttons, in all, that the joints are away from the
\* zero pose.
MaxClicks == 2

\* Largest max_iterations a call is given.
MaxIterations == 3

\* Number of solve calls in one run.
MaxSolves == 2

\* tolerance: the default 0.001 m, and 0.3 m.
Tolerances == {1000, 300000}

\* lambda_damping: the default 0.1, and 0 on the chains without twist, where the
\* undamped normal matrix is exactly singular (the steps an undamped solve takes
\* on a nearly singular matrix exceed the fixed-point range).
Dampings(rows) == IF \A i \in 1..Len(rows) : rows[i].alpha = 0 THEN {0, 100000} ELSE {100000}

\* step_size: the default 0.5.
StepSizes == {500000}

\* Angle vectors given to forward_kinematics directly, of every length 0..4.
ThetaVectors ==
    { <<>>, <<0>>, <<785398>>, <<0, 0>>, <<0, 0, 0>>, <<100000, 200000, 300000>>, <<100000, 200000, -900000>>,
      <<0, 0, 0, 0>> }

\* Angle vectors supplied from outside (hardware feedback) to set_all_thetas and
\* RobotUI.set_thetas: empty, too short, of the chain's length, too long.
FeedbackVectors ==
    { <<>>, <<785398>>, <<0, 0, 0>>, <<100000, 200000, -900000>>,
      <<100000, 200000, 300000, 400000>> }

\* joint_idx and value arguments of set_theta.
JointIndices == -1..3
AngleValues == {0, 785398}

\* Offset tables given to forward_kinematics directly.
OffsetTables ==
    { None, Some(<<IdentityOffset>>), Some(<<IdentityOffset, IdentityOffset>>),
      Some(SimpleOffsets), Some(TwistOffsets) }

(***************************************************************************)
(* RobotUI: the matplotlib view of a chain and its controls.               *)
(***************************************************************************)
\* RobotUI.step_size: the increment of the +/- buttons, 0.1 rad.
ui_step_size == 100000

\* T[0:3, j]
Column(T, j) == <<T[1][j], T[2][j], T[3][j]>>

\* v * scale
Scaled(v, scale) == <<Mul(v[1], scale), Mul(v[2], scale), Mul(v[3], scale)>>

\* RobotModel.get_joint_position(joint_idx), joint_idx counting from 0.
get_joint_position(m, joint_idx) ==
    IF joint_idx < 0 \/ joint_idx >= Len(m.T_actual) THEN <<0, 0, 0>>
    ELSE Translation(m.T_actual[joint_idx + 1])

\* RobotModel.get_joint_axes(joint_idx), joint_idx counting from 0.
get_joint_axes(m, joint_idx) ==
    IF joint_idx < 0 \/ joint_idx >= Len(m.T_actual)
    THEN <<Column(Eye4, 1), Column(Eye4, 2), Column(Eye4, 3)>>
    ELSE <<Column(m.T_actual[joint_idx + 1], 1), Column(m.T_actual[joint_idx + 1], 2),
           Column(m.T_actual[joint_idx + 1], 3)>>

\* The larger of two numbers.
Max(a, b) == IF a >= b THEN a ELSE b

\* np.max(np.abs(positions)) over the first n joints.
RECURSIVE positions_max(_, _)
positions_max(m, n) ==
    IF n = 0 THEN 0
    ELSE Max(positions_max(m, n - 1),
             Max(Abs(get_joint_position(m, n - 1)[1]),
                 Max(Abs(get_joint_position(m, n - 1)[2]),
                     Abs(get_joint_position(m, n - 1)[3]))))

\* RobotUI._setup_axes: the axis limit.
setup_axes(m) ==
    IF m.n_joints > 0 THEN Max(positions_max(m, m.n_joints) + 500000, Scale)
    ELSE Max(2 * Scale, Scale)

\* RobotUI._plot_frame: the origin and the three scaled axes of the arrows drawn.
plot_frame(T, scale) ==
    [origin |-> Translation(T),
     x_axis |-> Scaled(Column(T, 1), scale),
     y_axis |-> Scaled(Column(T, 2), scale),
     z_axis |-> Scaled(Column(T, 3), scale)]

\* RobotUI._plot_links: the segments drawn, from the base through the joints.
plot_links(m) ==
    [i \in 1..m.n_joints |->
        <<IF i = 1 THEN <<0, 0, 0>> ELSE get_joint_position(m, i - 2),
          get_joint_position(m, i - 1)>>]

\* axis / np.linalg.norm(axis)
normalized(axis, length) ==
    <<Quot(axis[1], length), Quot(axis[2], length), Quot(axis[3], length)>>

\* RobotUI._draw_cylinder: the centre and the unit axis of the cylinder drawn.
draw_cylinder(center, axis) == [center |-> center, axis |-> normalized(axis, norm(axis))]

\* RobotUI._plot_joints: one cylinder per joint along the z axis of its frame.
plot_joints(m) ==
    [i \in 1..m.n_joints |->
        draw_cylinder(get_joint_position(m, i - 1), get_joint_axes(m, i - 1)[3])]

\* Lines 153-172 of update_plot: what is drawn.
drawn(m, show_frames) ==
    [limit  |-> setup_axes(m),
     base   |-> plot_frame(Eye4, 300000),
     links  |-> plot_links(m),
     joints |-> plot_joints(m),
     frames |-> IF show_frames
                THEN [i \in 1..m.n_joints |-> plot_frame(m.T_actual[i], 200000)]
                ELSE <<>>]

\* The frame T with the axes of its rotation block multiplied by scale.
scaled_axes(T, scale) ==
    [i \in 1..4 |-> IF i = 4 THEN T[4]
                    ELSE <<Mul(T[i][1], scale), Mul(T[i][2], scale), Mul(T[i][3], scale),
                           T[i][4]>>]

\* update_plot as it would be if _plot_frame scaled the axes of the frame it is
\* given in place (x_axis *= scale), through the views into T_actual.
update_plot_scaling_in_place(m, show_frames) ==
    [model |-> IF show_frames
               THEN [m EXCEPT !.T_actual = [i \in 1..m.n_joints |->
                                               scaled_axes(m.T_actual[i], 200000)]]
               ELSE m,
     scene |-> drawn(m, show_frames)]

\* RobotUI.update_plot: the chain is only read; every array derived from its frames
\* (T * scale, axis / norm, np.array(positions)) is a new array.
update_plot(m, show_frames) == [model |-> m, scene |-> drawn(m, show_frames)]

\* math.degrees(theta) formatted with two decimals: hundredths of a degree.
degrees_text(theta) == Div(Quot(180 * theta, Pi), 10000)

\* RobotUI._update_theta_labels: the text of the label of every variable joint.
update_theta_labels(m) == [i \in m.variable_joints |-> degrees_text(m.thetas[i])]

\* No RobotUI.
NoUI == [open |-> FALSE]

\* RobotUI.__init__: the labels read 0.00, the frames are shown, the plot is drawn.
RobotUI(m) ==
    [open         |-> TRUE,
     show_frames  |-> TRUE,
     frame_button |-> "Hide Frames",
     theta_labels |-> [i \in m.variable_joints |-> 0],
     scene        |-> update_plot(m, TRUE).scene]

\* The RobotUI u showing the scene of a redraw.
redrawn(u, scene) == [u EXCEPT !.scene = scene]

\* Lines 102-103, 110-111, 148-149: the labels are refreshed, then the plot.
refreshed(u, m, scene) == redrawn([u EXCEPT !.theta_labels = update_theta_labels(m)], scene)

\* The sum of |theta| over the first n joints.
RECURSIVE displacement(_, _)
displacement(th, n) == IF n = 0 THEN 0 ELSE displacement(th, n - 1) + Abs(th[n])

\* RobotUI._toggle_frames: lines 122-123.
toggled(u) ==
    [u EXCEPT !.show_frames = ~u.show_frames,
              !.frame_button = IF u.show_frames THEN "Show Frames" ELSE "Hide Frames"]

(***************************************************************************)
(* State.                                                                  *)
(***************************************************************************)
VARIABLES
    model,          \* the RobotModel, or the exception its constructor raised
    pc,             \* "idle", or the position inside solve: "loop", "break", "done"
    call,           \* the call in progress or last made, with its arguments
    thetas,         \* solve: the working angles
    iteration,      \* solve: index of the next pass of the loop
    error_norm,     \* solve: None while unbound
    error_history,  \* solve
    ret,            \* what the last call returned or raised
    seed,           \* the converged result last committed to the chain
    n_solves,       \* solve calls made so far
    ui              \* the RobotUI showing the chain, None when there is none

vars == <<model, pc, call, thetas, iteration, error_norm, error_history, ret, seed, n_solves,
          ui>>

\* No solve frame.
NoFrame ==
    /\ thetas' = <<>>
    /\ iteration' = 0
    /\ error_norm' = None
    /\ error_history' = <<>>

Init ==
    /\ \E c \in Configs : model = RobotModel(c[1], c[2])
    /\ pc = "idle"
    /\ call = [op |-> "none"]
    /\ thetas = <<>>
    /\ iteration = 0
    /\ error_norm = None
    /\ error_history = <<>>
    /\ ret = [kind |-> "none"]
    /\ seed = None
    /\ n_solves = 0
    /\ ui = RobotUI(model)

\* No call is in progress.
AtRest == model.ok /\ pc \in {"idle", "done"}

\* initial_working_angles starting every solve from the zero pose.
initial_working_angles_zero(m) == [i \in 1..Len(m.thetas) |-> 0]

\* Line 54 of solve: the working angles start as a copy of the chain's.
initial_working_angles(m) == m.thetas

\* solve is called: lines 53-57.
SolveBegin ==
    /\ AtRest
    /\ n_solves < MaxSolves
    /\ \E t \in SolveTargets, mi \in 0..MaxIterations, tol \in Tolerances,
          lam \in Dampings(model.dh_rows), st \in StepSizes :
          call' = [op |-> "solve", target_pos |-> t, max_iterations |-> mi,
                   tolerance |-> tol, lambda_damping |-> lam, step_size |-> st]
    /\ thetas' = initial_working_angles(model)
    /\ error_history' = <<>>
    /\ error_norm' = None
    /\ iteration' = 0
    /\ pc' = "loop"
    /\ ret' = [kind |-> "none"]
    /\ n_solves' = n_solves + 1
    /\ UNCHANGED <<model, seed, ui>>

\* One pass of the loop body: lines 66-125.
SolveIter ==
    /\ pc = "loop"
    /\ iteration < call.max_iterations
    /\ \E error_vector \in {position_error(model, thetas, call.target_pos)} :
       \E err \in {norm(error_vector)} :
          /\ error_norm' = Some(err)
          /\ error_history' = Append(error_history, err)
          /\ IF has_converged(err, call.tolerance)
             THEN /\ ret' = return_converged(iteration, err,
                                             Append(error_history, err), thetas)
                  /\ pc' = "done"
                  /\ UNCHANGED <<thetas, iteration, model>>
             ELSE \E step \in {solve_step(model, thetas, error_vector,
                                          call.lambda_damping, call.step_size)} :
                  /\ thetas' = step.thetas
                  /\ model' = step.model
                  /\ iteration' = IF step.ok THEN iteration + 1 ELSE iteration
                  /\ pc' = IF step.ok THEN "loop" ELSE "break"
                  /\ UNCHANGED ret
    /\ UNCHANGED <<call, seed, n_solves, ui>>

\* The loop is left without convergence: lines 127-138.
SolveEnd ==
    /\ \/ pc = "break"
       \/ pc = "loop" /\ iteration >= call.max_iterations
    /\ ret' = return_not_converged(call.max_iterations, error_norm, error_history, thetas)
    /\ pc' = "done"
    /\ UNCHANGED <<model, call, thetas, iteration, error_norm, error_history, seed, n_solves,
                   ui>>

\* The caller commits the angles of a converged solve, as the solver's usage notes
\* and test_multiple_targets do: if success: model.set_all_thetas(joint_angles).
Commit ==
    /\ model.ok
    /\ pc = "done"
    /\ ret.kind = "return"
    /\ ret.success
    /\ model' = set_all_thetas(model, ret.thetas)
    /\ seed' = Some([target_pos |-> call.target_pos, tolerance |-> call.tolerance,
                     q |-> ret.thetas])
    /\ call' = [op |-> "set_all_thetas", values |-> ret.thetas]
    /\ ret' = [kind |-> "return"]
    /\ pc' = "idle"
    /\ NoFrame
    /\ UNCHANGED <<n_solves, ui>>

\* check_reachability is called.
CheckReachability ==
    /\ AtRest
    /\ \E t \in ReachTargets :
          /\ call' = [op |-> "check_reachability", target_pos |-> t]
          /\ ret' = check_reachability(model, t)
    /\ pc' = "idle"
    /\ NoFrame
    /\ UNCHANGED <<model, seed, n_solves, ui>>

Next ==
    \/ SolveBegin
    \/ SolveIter
    \/ SolveEnd
    \/ Commit
    \/ CheckReachability

Spec == Init /\ [][Next]_vars

(***************************************************************************)
(* The evaluator and the constructor on their own: forward_kinematics and  *)
(* RobotModel applied to tables and angle vectors of every length.         *)
(***************************************************************************)
InitFK ==
    /\ \E rows \in ChainTables, th \in ThetaVectors,
          offs \in OffsetTables :
          call = [op |-> "pending", dh_rows |-> rows, thetas |-> th, offsets |-> offs]
    /\ model = [ok |-> FALSE, exc |-> "none"]
    /\ pc = "idle"
    /\ thetas = <<>>
    /\ iteration = 0
    /\ error_norm = None
    /\ error_history = <<>>
    /\ ret = [kind |-> "none"]
    /\ seed = None
    /\ n_solves = 0
    /\ ui = NoUI

\* forward_kinematics(dh_rows, thetas, offsets) is called.
CallForwardKinematics ==
    /\ call.op = "pending"
    /\ call' = [call EXCEPT !.op = "forward_kinematics"]
    /\ ret' = forward_kinematics(call.dh_rows, call.thetas, call.offsets)
    /\ UNCHANGED <<model, pc, thetas, iteration, error_norm, error_history, seed, n_solves, ui>>

\* RobotModel(dh_rows, offsets) is called.
Construct ==
    /\ call.op = "pending"
    /\ call' = [call EXCEPT !.op = "RobotModel"]
    /\ model' = RobotModel(call.dh_rows, call.offsets)
    /\ UNCHANGED <<ret, pc, thetas, iteration, error_norm, error_history, seed, n_solves, ui>>

\* offset_row_to_matrix(off) is called.
CallOffsetRowToMatrix ==
    /\ call.op = "pending"
    /\ \E off \in OffsetRows :
          /\ call' = [op |-> "offset_row_to_matrix", off |-> off]
          /\ ret' = [kind |-> "return", T |-> offset_row_to_matrix(off)]
    /\ UNCHANGED <<model, pc, thetas, iteration, error_norm, error_history, seed, n_solves, ui>>

\* UniversalIKSolver(RobotModel(dh_rows, offsets))._compute_jacobian_numerical(thetas)
\* is called, for tables a RobotModel can be built from.
CallComputeJacobian ==
    /\ call.op = "pending"
    /\ RobotModel(call.dh_rows, call.offsets).ok
    /\ \E out \in {jacobian_call(RobotModel(call.dh_rows, call.offsets), call.thetas)} :
          /\ ret' = out
          /\ model' = IF out.ok THEN out.model ELSE RobotModel(call.dh_rows, call.offsets)
          /\ call' = [call EXCEPT !.op = "_compute_jacobian_numerical",
                                  !.thetas = IF out.ok THEN out.thetas ELSE call.thetas]
    /\ UNCHANGED <<pc, thetas, iteration, error_norm, error_history, seed, n_solves, ui>>

NextFK ==
    \/ CallForwardKinematics
    \/ Construct
    \/ CallOffsetRowToMatrix
    \/ CallComputeJacobian

SpecFK == InitFK /\ [][NextFK]_vars

(***************************************************************************)
(* The solver of the simple chain called with its default parameters.      *)
(***************************************************************************)
InitDefault ==
    /\ model = RobotModel(SimpleRows, Some(SimpleOffsets))
    /\ pc = "idle"
    /\ call = [op |-> "none"]
    /\ thetas = <<>>
    /\ iteration = 0
    /\ error_norm = None
    /\ error_history = <<>>
    /\ ret = [kind |-> "none"]
    /\ seed = None
    /\ n_solves = 0
    /\ ui = NoUI

\* solve(target_pos) is called, every other parameter at its default: lines 29-57.
SolveDefault ==
    /\ AtRest
    /\ n_solves < MaxSolves
    /\ \E t \in DefaultTargets :
          call' = [op |-> "solve", target_pos |-> t,
                   max_iterations |-> Defaults.max_iterations,
                   tolerance |-> Defaults.tolerance,
                   lambda_damping |-> Defaults.lambda_damping,
                   step_size |-> Defaults.step_size]
    /\ thetas' = initial_working_angles(model)
    /\ error_history' = <<>>
    /\ error_norm' = None
    /\ iteration' = 0
    /\ pc' = "loop"
    /\ ret' = [kind |-> "none"]
    /\ n_solves' = n_solves + 1
    /\ UNCHANGED <<model, seed, ui>>

NextDefault ==
    \/ SolveDefault
    \/ SolveIter
    \/ SolveEnd
    \/ Commit

SpecDefault == InitDefault /\ [][NextDefault]_vars

(***************************************************************************)
(* The chain model under its set operations.                               *)
(***************************************************************************)
\* RobotModel.set_theta(joint_idx, value).
SetTheta ==
    /\ model.ok
    /\ \E joint_idx \in JointIndices, value \in AngleValues :
          /\ call' = [op |-> "set_theta", joint_idx |-> joint_idx, value |-> value]
          /\ model' = set_theta(model, joint_idx, value)
    /\ ret' = [kind |-> "return"]
    /\ UNCHANGED <<pc, thetas, iteration, error_norm, error_history, seed, n_solves, ui>>

\* RobotModel.set_all_thetas(values).
SetAllThetas ==
    /\ model.ok
    /\ \E values \in FeedbackVectors :
          /\ call' = [op |-> "set_all_thetas", values |-> values]
          /\ model' = set_all_thetas(model, values)
    /\ ret' = [kind |-> "return"]
    /\ UNCHANGED <<pc, thetas, iteration, error_norm, error_history, seed, n_solves, ui>>

NextChain == SetTheta \/ SetAllThetas

SpecChain == Init /\ [][NextChain]_vars

(***************************************************************************)
(* The RobotUI under its buttons and calls.                                *)
(***************************************************************************)
\* The + button of a variable joint: RobotUI._increment_theta(joint_idx).
IncrementTheta ==
    /\ model.ok
    /\ ui.open
    /\ \E joint_idx \in {i - 1 : i \in model.variable_joints} :
          /\ displacement([model.thetas EXCEPT ![joint_idx + 1] = @ + ui_step_size],
                          model.n_joints) <= MaxClicks * ui_step_size
          /\ call' = [op |-> "_increment_theta", joint_idx |-> joint_idx]
          /\ \E plot \in {update_plot(set_theta(model, joint_idx,
                                                 model.thetas[joint_idx + 1] + ui_step_size),
                                       ui.show_frames)} :
                /\ model' = plot.model
                /\ ui' = refreshed(ui, plot.model, plot.scene)
    /\ ret' = [kind |-> "return"]
    /\ UNCHANGED <<pc, thetas, iteration, error_norm, error_history, seed, n_solves>>

\* The - button of a variable joint: RobotUI._decrement_theta(joint_idx).
DecrementTheta ==
    /\ model.ok
    /\ ui.open
    /\ \E joint_idx \in {i - 1 : i \in model.variable_joints} :
          /\ displacement([model.thetas EXCEPT ![joint_idx + 1] = @ - ui_step_size],
                          model.n_joints) <= MaxClicks * ui_step_size
          /\ call' = [op |-> "_decrement_theta", joint_idx |-> joint_idx]
          /\ \E plot \in {update_plot(set_theta(model, joint_idx,
                                                 model.thetas[joint_idx + 1] - ui_step_size),
                                       ui.show_frames)} :
                /\ model' = plot.model
                /\ ui' = refreshed(ui, plot.model, plot.scene)
    /\ ret' = [kind |-> "return"]
    /\ UNCHANGED <<pc, thetas, iteration, error_norm, error_history, seed, n_solves>>

\* The frame button: RobotUI._toggle_frames(event).
ToggleFrames ==
    /\ model.ok
    /\ ui.open
    /\ call' = [op |-> "_toggle_frames"]
    /\ \E plot \in {update_plot(model, ~ui.show_frames)} :
          /\ model' = plot.model
          /\ ui' = redrawn(toggled(ui), plot.scene)
    /\ ret' = [kind |-> "return"]
    /\ UNCHANGED <<pc, thetas, iteration, error_norm, error_history, seed, n_solves>>

\* RobotUI.update_plot().
UpdatePlot ==
    /\ model.ok
    /\ ui.open
    /\ call' = [op |-> "update_plot"]
    /\ \E plot \in {update_plot(model, ui.show_frames)} :
          /\ model' = plot.model
          /\ ui' = redrawn(ui, plot.scene)
    /\ ret' = [kind |-> "return"]
    /\ UNCHANGED <<pc, thetas, iteration, error_norm, error_history, seed, n_solves>>

\* RobotUI.set_thetas(thetas): set_all_thetas on the model, then the labels and
\* the plot are refreshed.
SetThetasUI ==
    /\ model.ok
    /\ ui.open
    /\ \E values \in FeedbackVectors :
          /\ call' = [op |-> "set_thetas", values |-> values]
          /\ \E plot \in {update_plot(set_all_thetas(model, values), ui.show_frames)} :
                /\ model' = plot.model
                /\ ui' = refreshed(ui, plot.model, plot.scene)
    /\ ret' = [kind |-> "return"]
    /\ UNCHANGED <<pc, thetas, iteration, error_norm, error_history, seed, n_solves>>

NextUI ==
    \/ IncrementTheta
    \/ DecrementTheta
    \/ ToggleFrames
    \/ UpdatePlot
    \/ SetThetasUI

SpecUI == Init /\ [][NextUI]_vars

(***************************************************************************)
(* Properties.                                                             *)
(***************************************************************************)
\* solve has returned a result.
Returned == pc = "done" /\ ret.kind = "return"

\* solve has left its loop because the budget ran out.
Exhausted == pc = "done" /\ iteration = call.max_iterations

\* solve has left its loop at the break of the except clause.
Aborted == pc = "done" /\ iteration < call.max_iterations /\ ~(ret.kind = "return" /\ ret.success)

\* The last element of a non-empty sequence.
Last(h) == h[Len(h)]

\* The error norm at the angles q: the distance from the target to the end effector.
ErrorAt(q) == norm(position_error(model, q, call.target_pos))

\* C1: solve never mutates the chain: every step of a solve call, from its first
\* line to its return (converged, exhausted or aborted), leaves the RobotModel's
\* thetas, T_dh and T_actual (and the rest of it) as they were; only the caller's
\* set_all_thetas changes them.
C1_SolveLeavesChain ==
    [][(pc \in {"loop", "break"} \/ pc' \in {"loop", "break"}) => model' = model]_vars

\* C1 witness: solve has returned working angles that differ from the chain's.
C1_Witness == Returned /\ ret.thetas # model.thetas

\* C2: solve returns converged=true exactly when some pass k < max_iterations
\* computed an error norm below the tolerance; it then returns at once with
\* iterations = k, final_error = that norm and the working angles the norm was
\* computed at.
C2_ConvergedIffBelowTolerance ==
    pc = "done" =>
        /\ (ret.kind = "return" /\ ret.success)
              <=> (\E k \in 1..Len(error_history) : error_history[k] < call.tolerance)
        /\ (ret.kind = "return" /\ ret.success) =>
              /\ ret.info.iterations < call.max_iterations
              /\ Len(error_history) = ret.info.iterations + 1
              /\ \A j \in 1..ret.info.iterations : error_history[j] >= call.tolerance
              /\ ret.info.final_error = error_history[ret.info.iterations + 1]
              /\ ret.info.final_error < call.tolerance
              /\ ret.thetas = thetas
              /\ ErrorAt(ret.thetas) = ret.info.final_error

\* C2 witness: a solve that converged after at least one update.
C2_Witness == Returned /\ ret.success /\ ret.info.iterations >= 1

\* C3: when the budget is exhausted, solve returns converged=false with the
\* working angles, iterations = max_iterations and max_iterations history entries.
C3_ExhaustedReturnsBestEffort ==
    Exhausted =>
        /\ ret.kind = "return"
        /\ ~ret.success
        /\ ret.thetas = thetas
        /\ ret.info.iterations = call.max_iterations
        /\ Len(ret.info.error_history) = call.max_iterations

\* C4: when the linear solve fails at pass k, solve returns converged=false with
\* iterations = k, the abort index.
C4_AbortReportsAbortIndex ==
    Aborted =>
        /\ ret.kind = "return"
        /\ ~ret.success
        /\ ret.info.iterations = iteration

\* The trace an abort can leave in the diagnostics: an exhausted solve reports as
\* many history entries as iterations, so diagnostics that do so tell nothing.
RecordsAbort(info) == Len(info.error_history) # info.iterations

\* C5: a failed linear solve is not raised: solve returns converged=false with the
\* angles the failed step started from, and the diagnostics record the condition,
\* so that they differ from those of an exhausted solve.
C5_AbortRecordedInDiagnostics ==
    Aborted =>
        /\ ret.kind = "return"
        /\ ~ret.success
        /\ ret.thetas = thetas
        /\ ErrorAt(ret.thetas) = ret.info.final_error
        /\ RecordsAbort(ret.info)

\* C6: in every result solve returns, final_error is the last error norm computed,
\* the last element of error_history.
C6_FinalErrorIsLastNorm ==
    Returned =>
        /\ ret.info.error_history = error_history
        /\ Len(error_history) >= 1
        /\ ret.info.final_error = Last(error_history)
        /\ error_norm = Some(ret.info.final_error)

\* C6 witness: a non-converged result whose error norms changed along the way.
C6_Witness ==
    /\ Returned
    /\ ~ret.success
    /\ Len(error_history) >= 2
    /\ error_history[1] # Last(error_history)

\* A solve has finished that was given the target and tolerance of the converged
\* result last committed to the chain.
SecondSolveDone ==
    /\ pc = "done"
    /\ seed # None
    /\ call.target_pos = seed[1].target_pos
    /\ call.tolerance = seed[1].tolerance

\* The second solve converged at once on the committed angles.
ConvergedAtSeed ==
    /\ ret.kind = "return"
    /\ ret.success
    /\ ret.info.iterations <= 1
    /\ ret.thetas = seed[1].q

RECURSIVE LinkBudget(_)
LinkBudget(rows) ==
    IF rows = <<>> THEN 0
    ELSE Abs(Head(rows).a) + Abs(Head(rows).d) + LinkBudget(Tail(rows))

\* x^2 + y^2 + z^2 of t = (x, y, z), as a two-word number.
SumOfSquares(t) == Plus(Square(Abs(t[1])), Plus(Square(Abs(t[2])), Square(Abs(t[3]))))

\* The Euclidean norm of t is d, to within one unit.
IsNorm(d, t) ==
    /\ d >= 0
    /\ Leq(Square(IF d = 0 THEN 0 ELSE d - 1), SumOfSquares(t))
    /\ Leq(SumOfSquares(t), Square(d + 1))

\* C8: check_reachability returns the norm of the target as distance, and
\* reachable exactly when distance <= 1.1 * sum(|a_i| + |d_i|); the call leaves
\* the chain as it is.
C8_Reachability ==
    /\ [](call.op = "check_reachability" =>
            /\ IsNorm(ret.distance, call.target_pos)
            /\ ret.reachable <=> (10 * ret.distance <= 11 * LinkBudget(model.dh_rows)))
    /\ [][call'.op = "check_reachability" => model' = model]_vars

\* C8 witness: a target exactly at 1.1 times the link budget, reported reachable.
C8_Witness ==
    /\ call.op = "check_reachability"
    /\ 10 * ret.distance = 11 * LinkBudget(model.dh_rows)
    /\ ret.reachable

\* check_reachability has been called on the 3-DOF chain of the tests.
SimpleReachCall == call.op = "check_reachability" /\ model.dh_rows = SimpleRows

\* C9 as stated: on the 3-DOF chain, whose max reach is 2.3, a target at 2.5 m
\* from the origin is reported unreachable and one at 2.0 m reachable.
C9_Original ==
    SimpleReachCall =>
        /\ LinkBudget(SimpleRows) = 2300000
        /\ ret.distance = 2500000 => ~ret.reachable
        /\ ret.distance = 2000000 => ret.reachable

\* C9 as amended: on the 3-DOF chain, whose max reach is 2.3, a target at 2.5 m
\* from the origin is within the 10% margin (2.53 m) and reported reachable, as is
\* one at 2.0 m; the target (2.5, 0, 0.5) of test_workspace_limits, 2.55 m from the
\* origin, is reported unreachable.
C9_ReachabilityBoundary ==
    SimpleReachCall =>
        /\ LinkBudget(SimpleRows) = 2300000
        /\ ret.distance = 2500000 => ret.reachable
        /\ ret.distance = 2000000 => ret.reachable
        /\ call.target_pos = <<2500000, 0, 500000>> =>
              (ret.distance > 2530000 /\ ~ret.reachable)

\* C9 witness: a target 2.5 m from the origin has been checked on the 3-DOF chain.
C9_Witness == SimpleReachCall /\ ret.distance = 2500000 /\ call.target_pos[3] = 0

\* The angle vector or the offsets list of the call disagrees in length with the DH rows.
LengthMismatch ==
    \/ Len(call.thetas) # Len(call.dh_rows)
    \/ call.offsets # None /\ Len(call.offsets[1]) # Len(call.dh_rows)

\* C10: forward_kinematics fails, returning no transforms, whenever thetas or a
\* supplied offsets list differs in length from dh_rows; so constructing a
\* RobotModel from tables of different lengths fails and yields no chain.
C10_DimensionMismatch ==
    /\ (call.op = "forward_kinematics" /\ LengthMismatch) =>
          /\ ~ret.ok
          /\ ret.exc = "AssertionError"
          /\ "T_dh" \notin DOMAIN ret
          /\ "T_actual" \notin DOMAIN ret
    /\ (call.op = "RobotModel" /\ call.offsets # None
        /\ Len(call.offsets[1]) # Len(call.dh_rows)) =>
          /\ ~model.ok
          /\ model.exc = "AssertionError"
          /\ "thetas" \notin DOMAIN model

\* C10 witness: a RobotModel was constructed with more offsets than DH rows.
C10_Witness ==
    /\ call.op = "RobotModel"
    /\ call.offsets # None
    /\ Len(call.offsets[1]) > Len(call.dh_rows)
    /\ ~model.ok

\* A step that is a call of the chain's overwrite operation, RobotModel.set_all_thetas
\* or RobotUI.set_thetas, with an angle vector whose length is not the joint count.
MismatchedOverwrite ==
    /\ call'.op \in {"set_all_thetas", "set_thetas"}
    /\ Len(call'.values) # model.n_joints

\* C11: an angle vector whose length differs from the joint count N is rejected by
\* set_all_thetas / set_thetas as a dimension mismatch: the call raises, nothing is
\* truncated, padded or partially applied, and the chain's angles stay as they were.
C11_MismatchRejected ==
    [][MismatchedOverwrite => (ret'.kind = "raise" /\ model'.thetas = model.thetas)]_vars

\* forward_kinematics has been called and has returned its two frame lists.
FKReturned == call.op = "forward_kinematics" /\ ret.ok

\* The DH rows with every theta left to the angle vector.
RECURSIVE AllVariable(_)
AllVariable(rows) ==
    IF rows = <<>> THEN <<>>
    ELSE <<[Head(rows) EXCEPT !.theta = None]>> \o AllVariable(Tail(rows))

\* The angle of each joint as C12 states it: the row's literal theta when present,
\* the slot of the angle vector otherwise.
RECURSIVE EffectiveAngles(_, _)
EffectiveAngles(rows, th) ==
    IF rows = <<>> THEN <<>>
    ELSE <<IF Head(rows).theta # None THEN Head(rows).theta[1] ELSE Head(th)>>
         \o EffectiveAngles(Tail(rows), Tail(th))

\* Other values for one slot of an angle vector.
OtherAngles == {0, 785398, -2000000}

\* C12: the effective angle of joint i is the DH row's literal theta when present
\* and thetas[i] otherwise (the frames are those of the all-variable chain at the
\* effective angles); so the frames do not depend on the slot of a fixed joint.
C12_FixedJointAngle ==
    FKReturned =>
        /\ ret = forward_kinematics(AllVariable(call.dh_rows),
                                    EffectiveAngles(call.dh_rows, call.thetas),
                                    call.offsets)
        /\ \A i \in 1..Len(call.dh_rows) : \A v \in OtherAngles :
              call.dh_rows[i].theta # None =>
                  ret = forward_kinematics(call.dh_rows, [call.thetas EXCEPT ![i] = v],
                                           call.offsets)

\* C12 witness: frames returned for a chain with a fixed joint whose slot in the
\* angle vector holds another angle than the row's.
C12_Witness ==
    /\ FKReturned
    /\ \E i \in 1..Len(call.dh_rows) :
          /\ call.dh_rows[i].theta # None
          /\ call.thetas[i] # call.dh_rows[i].theta[1]

\* The chain as RobotModel.__init__ built it from the tables m still holds.
AtConstruction(m) == RobotModel(m.dh_rows, m.offsets)

\* C13: only variable joints are settable: after any sequence of set_theta and
\* set_all_thetas calls the slot of every joint with a fixed theta holds the value
\* it had at construction, and the DH rows are those the chain was built from.
C13_FixedSlotsKept ==
    model.ok =>
        /\ \E c \in Configs : model.dh_rows = c[1]
        /\ \A i \in 1..model.n_joints :
              model.dh_rows[i].theta # None =>
                  model.thetas[i] = AtConstruction(model).thetas[i]

\* C14: the cached transforms are in step with the angles: after construction and
\* after every set_theta or set_all_thetas call, T_dh and T_actual are what
\* forward_kinematics(dh_rows, thetas, offsets) returns for the current thetas,
\* each list with exactly N entries.
C14_TransformsInStep ==
    model.ok =>
        /\ forward_kinematics(model.dh_rows, model.thetas, model.offsets)
              = [ok |-> TRUE, T_dh |-> model.T_dh, T_actual |-> model.T_actual]
        /\ Len(model.T_dh) = model.n_joints
        /\ Len(model.T_actual) = model.n_joints
        /\ Len(model.thetas) = model.n_joints
        /\ Len(model.dh_rows) = model.n_joints

\* C14 witness: set_theta has just given a variable joint a non-zero angle.
C14_Witness ==
    /\ model.ok
    /\ call.op = "set_theta"
    /\ (call.joint_idx + 1) \in model.variable_joints
    /\ call.value # 0
    /\ model.thetas[call.joint_idx + 1] = call.value

\* The offsets list forward_kinematics works with in the call made.
CallOffsets == offsets_or_identity(call.offsets, Len(call.dh_rows))

\* Other offset rows for one slot of an offsets list.
OtherOffsets ==
    { IdentityOffset,
      [tx |-> 300000, ty |-> -100000, tz |-> 0, rx |-> 400000, ry |-> 0, rz |-> 785398,
       is_identity |-> FALSE] }

\* The frames of joint j are the same in the results f and g.
SameFrames(f, g, j) == f.T_dh[j] = g.T_dh[j] /\ f.T_actual[j] = g.T_actual[j]

\* C15: forward_kinematics composes in chain order: dh[0] = A_0, dh[i] = dh[i-1] * A_i,
\* actual[i] = dh[i] * O_i; so the offset of joint i affects actual[i] only, never
\* a dh frame nor the actual frame of another joint.
C15_ChainOrder ==
    FKReturned =>
        /\ Len(ret.T_dh) = Len(call.dh_rows)
        /\ Len(ret.T_actual) = Len(call.dh_rows)
        /\ \A i \in 1..Len(call.dh_rows) :
              /\ ret.T_dh[i] = IF i = 1 THEN joint_matrix(call.dh_rows, call.thetas, 1)
                               ELSE MatMul(ret.T_dh[i - 1],
                                           joint_matrix(call.dh_rows, call.thetas, i))
              /\ ret.T_actual[i] = MatMul(ret.T_dh[i], offset_row_to_matrix(CallOffsets[i]))
              /\ \A o \in OtherOffsets : \A j \in 1..Len(call.dh_rows) :
                    /\ forward_kinematics(call.dh_rows, call.thetas,
                                          Some([CallOffsets EXCEPT ![i] = o])).T_dh[j]
                          = ret.T_dh[j]
                    /\ j # i =>
                          forward_kinematics(call.dh_rows, call.thetas,
                                             Some([CallOffsets EXCEPT ![i] = o])).T_actual[j]
                             = ret.T_actual[j]

\* C15 witness: frames returned for a chain of three joints whose second joint
\* carries an offset that is not the identity, at non-zero angles.
C15_Witness ==
    /\ FKReturned
    /\ Len(call.dh_rows) = 3
    /\ offset_row_to_matrix(CallOffsets[2]) # Eye4
    /\ ret.T_actual[2] # ret.T_dh[2]
    /\ call.thetas[1] # 0

\* The offset of joint i is marked identity in the call made, or no offsets were given.
MarkedIdentity(i) == call.offsets = None \/ Get(call.offsets[1][i], "is_identity", FALSE)

\* C16: for every joint whose offset is marked identity, and for every joint when
\* offsets is None, actual[i] = dh[i] for any angle vector, whatever tx..rz the
\* offset row holds.
C16_IdentityPassThrough ==
    FKReturned =>
        \A i \in 1..Len(call.dh_rows) : MarkedIdentity(i) => ret.T_actual[i] = ret.T_dh[i]

\* C16 witness: frames returned at non-zero angles for a joint whose offset row is
\* marked identity and holds a non-zero tx.
C16_Witness ==
    /\ FKReturned
    /\ call.offsets # None
    /\ call.thetas[1] # 0
    /\ \E i \in 1..Len(call.dh_rows) :
          /\ MarkedIdentity(i)
          /\ Get(call.offsets[1][i], "tx", 0) # 0
          /\ ret.T_actual[i] = ret.T_dh[i]

\* T is the 4x4 identity matrix.
IsIdentity4(T) == \A i \in 1..4 : \A j \in 1..4 : T[i][j] = IF i = j THEN Scale ELSE 0

\* The call made is for a chain of one joint with a = 0, d = 0, alpha = 0, an
\* effective theta of 0 and an identity offset.
ZeroJointCall ==
    /\ FKReturned
    /\ Len(call.dh_rows) = 1
    /\ call.dh_rows[1].a = 0
    /\ call.dh_rows[1].d = 0
    /\ call.dh_rows[1].alpha = 0
    /\ EffectiveAngles(call.dh_rows, call.thetas) = <<0>>
    /\ MarkedIdentity(1)

\* C17: for a one-joint chain with a = 0, d = 0, alpha = 0, effective theta 0 (fixed
\* at 0, or variable with thetas = [0]) and an identity offset, the dh frame and the
\* actual frame are both the 4x4 identity matrix.
C17_FKIdentity ==
    ZeroJointCall =>
        /\ Len(ret.T_dh) = 1
        /\ Len(ret.T_actual) = 1
        /\ IsIdentity4(ret.T_dh[1])
        /\ IsIdentity4(ret.T_actual[1])

\* C17 witness: the zero joint with theta fixed at 0, called with a non-zero angle
\* in its slot.
C17_Witness == ZeroJointCall /\ call.dh_rows[1].theta = Some(0) /\ call.thetas[1] # 0

\* The elementary rotations about x, y and z by an angle.
Rx(angle) == << <<Scale, 0, 0>>, <<0, cos(angle), -sin(angle)>>, <<0, sin(angle), cos(angle)>> >>
Ry(angle) == << <<cos(angle), 0, sin(angle)>>, <<0, Scale, 0>>, <<-sin(angle), 0, cos(angle)>> >>
Rz(angle) == << <<cos(angle), -sin(angle), 0>>, <<sin(angle), cos(angle), 0>>, <<0, 0, Scale>> >>

\* The value of a key of the offset row of the call, 0 when the row lacks it.
OffsetValue(key) == IF key \in DOMAIN call.off THEN call.off[key] ELSE 0

\* offset_row_to_matrix has returned for a row that is not marked as identity.
NonIdentityOffsetReturned ==
    /\ call.op = "offset_row_to_matrix"
    /\ ~("is_identity" \in DOMAIN call.off /\ call.off.is_identity)

\* C18: for a non-identity offset row, offset_row_to_matrix returns the matrix whose
\* rotation block is Rz(rz) * Ry(ry) * Rx(rx), whose translation column is
\* (tx, ty, tz) and whose last row is (0, 0, 0, 1), a missing key counting as 0.
C18_OffsetMatrix ==
    NonIdentityOffsetReturned =>
        /\ \A i \in 1..3 : \A j \in 1..3 :
              ret.T[i][j] = MatMul3(MatMul3(Rz(OffsetValue("rz")), Ry(OffsetValue("ry"))),
                                    Rx(OffsetValue("rx")))[i][j]
        /\ Translation(ret.T) = <<OffsetValue("tx"), OffsetValue("ty"), OffsetValue("tz")>>
        /\ ret.T[4] = <<0, 0, 0, Scale>>

\* C18 witness: a row turning about all three axes, with a translation, has been
\* converted.
C18_Witness ==
    /\ NonIdentityOffsetReturned
    /\ OffsetValue("rx") # 0 /\ OffsetValue("ry") # 0 /\ OffsetValue("rz") # 0
    /\ OffsetValue("tx") # 0

\* solve, called with its default parameters on the 3-DOF planar chain standing at
\* all-zero angles, is over for the target t.
DefaultSolveDone(t) ==
    /\ pc = "done"
    /\ call.op = "solve"
    /\ call.target_pos = t
    /\ call.max_iterations = 200
    /\ call.tolerance = 1000
    /\ call.lambda_damping = 100000
    /\ call.step_size = 500000
    /\ model.dh_rows = SimpleRows
    /\ model.thetas = <<0, 0, 0>>

\* C19: on the 3-DOF planar chain (d=0.5, a=0; a=1.0; a=0.8, all variable, identity
\* offsets) starting from all-zero angles, solve with default parameters for the
\* target (1.0, 0.5, 0.5) m returns converged=true with final_error < 0.001 and
\* iterations < 200.
C19_ConvergesOnReachable ==
    DefaultSolveDone(<<1000000, 500000, 500000>>) =>
        /\ ret.kind = "return"
        /\ ret.success
        /\ ret.info.final_error < 1000
        /\ ret.info.iterations < 200

\* C19 witness: that solve has returned after moving the working angles through
\* more than ten passes.
C19_Witness ==
    /\ DefaultSolveDone(<<1000000, 500000, 500000>>)
    /\ ret.kind = "return"
    /\ ret.info.iterations > 10
    /\ ret.thetas # <<0, 0, 0>>

\* solve on the 3-DOF planar chain is over for the target (10.0, 10.0, 10.0) m.
FarSolveDone ==
    /\ pc = "done"
    /\ call.op = "solve"
    /\ call.target_pos = <<10000000, 10000000, 10000000>>
    /\ model.dh_rows = SimpleRows

RenderingStep == call'.op \in {"update_plot", "_toggle_frames"}

\* The step changes the chain as the + or - button of a joint does: through
\* RobotModel.set_theta with the joint's angle one step_size up or down.
ThroughSetTheta ==
    /\ call'.op \in {"_increment_theta", "_decrement_theta"}
    /\ model' = set_theta(model, call'.joint_idx,
                          model.thetas[call'.joint_idx + 1]
                              + (IF call'.op = "_increment_theta" THEN ui_step_size
                                 ELSE -ui_step_size))

\* The step changes the chain as RobotUI.set_thetas does: through
\* RobotModel.set_all_thetas with the vector given.
ThroughSetAllThetas ==
    /\ call'.op = "set_thetas"
    /\ model' = set_all_thetas(model, call'.values)

\* C21: rendering never mutates kinematic state: update_plot and _toggle_frames,
\* with the plotting helpers they call, leave the RobotModel (dh_rows, offsets,
\* thetas, T_dh, T_actual) unchanged; only the +/- joint controls and set_thetas
\* change it, and the chain they leave is the one RobotModel.set_theta /
\* set_all_thetas produces.
C21_RenderingLeavesChain ==
    [][/\ RenderingStep => model' = model
       /\ model' # model => (ThroughSetTheta \/ ThroughSetAllThetas)]_vars

\* C21 witness: the frames of a chain moved by the buttons have been hidden and
\* shown again.
C21_Witness ==
    /\ call.op = "_toggle_frames"
    /\ ui.show_frames
    /\ Len(ui.scene.frames) = model.n_joints
    /\ \E i \in 1..model.n_joints : model.thetas[i] # 0

\* C22: solve terminates with a (converged, angles, diagnostics) result, without
\* raising, for every max_iterations >= 0: the loop body runs at most
\* max_iterations times, and with max_iterations = 0 the result is converged=false
\* with the chain's current angles and an empty error history.
C22_ReturnsForEveryBudget ==
    (pc = "done" /\ call.op = "solve") =>
        /\ ret.kind = "return"
        /\ iteration <= call.max_iterations
        /\ Len(error_history) <= call.max_iterations
        /\ call.max_iterations = 0 =>
              /\ ~ret.success
              /\ ret.thetas = model.thetas
              /\ ret.info.error_history = <<>>

\* The distance from the target of the call to the chain's current end-effector
\* position, the translation of its last actual frame.
DistanceFromChain(m, target) ==
    norm(error_from(target, Translation(m.T_actual[Len(m.T_actual)])))

\* C23: warm start: every call of solve seeds its working angles with the chain's
\* angle vector as it is at the moment of the call, whatever an earlier solve
\* returned, so that the first entry of the error history is the distance between
\* the target and the chain's current end-effector position.
C23_WarmStart ==
    [][/\ (pc \in {"idle", "done"} /\ pc' = "loop") =>
              (thetas' = model.thetas /\ model' = model)
       /\ (pc' \in {"loop", "break", "done"} /\ Len(error_history') >= 1) =>
              error_history'[1] = DistanceFromChain(model', call'.target_pos)]_vars

\* C23 witness: a second solve, called on a chain whose angles an earlier commit had
\* moved from the zero pose, has recorded its first error.
C23_Witness ==
    /\ pc \in {"loop", "done"}
    /\ n_solves = 2
    /\ \E i \in 1..model.n_joints : model.thetas[i] # 0
    /\ Len(error_history) >= 1
    /\ error_history[1] = DistanceFromChain(model, call.target_pos)

\* _compute_jacobian_numerical has returned a matrix.
JacobianReturned == call.op = "_compute_jacobian_numerical" /\ ret.ok

\* The end-effector position of the chain of the call at the angles th.
PositionAt(th) == end_effector(forward_kinematics(call.dh_rows, th, call.offsets))

\* The angles th with only slot i increased by epsilon.
OnlyPerturbed(th, i) == [th EXCEPT ![i] = @ + epsilon]

\* C24: the numerical Jacobian is a 3 x N matrix whose column i is
\* (p_i - p0) / epsilon, p0 the end-effector position at thetas and p_i the position
\* at thetas with only slot i increased by epsilon; for a joint with a fixed DH
\* theta the column is exactly zero.
C24_JacobianColumns ==
    JacobianReturned =>
        /\ Len(ret.J) = 3
        /\ \A r \in 1..3 :
              /\ Len(ret.J[r]) = Len(call.dh_rows)
              /\ \A i \in 1..Len(call.dh_rows) :
                    /\ ret.J[r][i] = Quot(PositionAt(OnlyPerturbed(call.thetas, i))[r]
                                              - PositionAt(call.thetas)[r], epsilon)
                    /\ call.dh_rows[i].theta # None => ret.J[r][i] = 0

\* C24 witness: the Jacobian of a chain with a fixed joint after two variable ones,
\* at non-zero angles, with non-zero entries in its first two columns.
C24_Witness ==
    /\ JacobianReturned
    /\ Len(call.dh_rows) = 3
    /\ call.dh_rows[3].theta # None
    /\ call.thetas[1] # 0 /\ call.thetas[2] # 0
    /\ \E r \in 1..3 : ret.J[r][1] # 0
    /\ \E r \in 1..3 : ret.J[r][2] # 0

\* The step leaves the dh_rows, thetas and offsets arguments of the call as they
\* were passed.
ArgumentsKept ==
    /\ call'.dh_rows = call.dh_rows
    /\ call'.thetas = call.thetas
    /\ call'.offsets = call.offsets

CommitStep ==
    /\ pc = "done"
    /\ call.op = "solve"
    /\ ret.kind = "return"
    /\ ret.success
    /\ call'.op = "set_all_thetas"
    /\ call'.values = ret.thetas

\* The distance from the target to get_joint_position(N - 1) of the chain m.
DistanceToTarget(m, target) ==
    norm(error_from(target, get_joint_position(m, m.n_joints - 1)))

\* C26: commit round trip: when solve returns converged=true with angles q and the
\* caller applies model.set_all_thetas(q), the model's end-effector position
\* get_joint_position(N - 1) is within tolerance of the target, and its distance to
\* the target equals the reported final_error.
C26_CommitRoundTrip ==
    [][CommitStep =>
          /\ model'.thetas = ret.thetas
          /\ DistanceToTarget(model', call.target_pos) < call.tolerance
          /\ DistanceToTarget(model', call.target_pos) = ret.info.final_error]_vars

\* C26 witness: the angles of a converged solve that moved away from the zero pose
\* have been committed, and the chain's end effector is within tolerance of the
\* target without being on it.
C26_Witness ==
    /\ call.op = "set_all_thetas"
    /\ seed # None
    /\ model.thetas = seed[1].q
    /\ \E i \in 1..model.n_joints : model.thetas[i] # 0
    /\ DistanceToTarget(model, seed[1].target_pos) < seed[1].tolerance
    /\ DistanceToTarget(model, seed[1].target_pos) > 0

\* C27: error-history shape: in a converged result error_history has exactly
\* iterations + 1 entries, every entry but the last is >= tolerance and the last is
\* < tolerance; in a non-converged result every entry is >= tolerance.
C27_HistoryShape ==
    Returned =>
        IF ret.success
        THEN /\ Len(ret.info.error_history) = ret.info.iterations + 1
             /\ \A k \in 1..(Len(ret.info.error_history) - 1) :
                   ret.info.error_history[k] >= call.tolerance
             /\ Last(ret.info.error_history) < call.tolerance
        ELSE \A k \in 1..Len(ret.info.error_history) :
                   ret.info.error_history[k] >= call.tolerance

\* C27 witness: a result that converged after at least one update, with an error
\* history of two or more entries.
C27_Witness ==
    /\ Returned
    /\ ret.success
    /\ ret.info.iterations >= 1
    /\ Len(ret.info.error_history) >= 2
    /\ ret.info.error_history[1] >= call.tolerance

\* The step is a pass of the loop of solve that updates the working angles.
UpdatingPass == pc = "loop" /\ pc' = "loop"

\* The step is the return of solve after its budget ran out.
ExhaustedReturn == pc = "loop" /\ pc' = "done" /\ ret'.kind = "return" /\ ~ret'.success

\* The step is the return of solve after its linear solve failed.
AbortedReturn == pc = "break" /\ pc' = "done" /\ ret'.kind = "return"

\* The step is the converged return of solve.
ConvergedReturn == pc = "loop" /\ pc' = "done" /\ ret'.kind = "return" /\ ret'.success

\* The final_error of the result returned by the step is the error norm of the
\* angles the result carries.
PairedResult ==
    ret'.info.final_error = norm(position_error(model', ret'.thetas, call'.target_pos))

SetThetaStep == call'.op = "set_theta"

\* The set_theta call of the step names a joint of the chain whose DH row leaves
\* theta open.
NamesVariableJoint ==
    IF call'.joint_idx < 0 \/ call'.joint_idx >= model.n_joints THEN FALSE
    ELSE model.dh_rows[call'.joint_idx + 1].theta = None

\* C29: set_theta with an index out of range or naming a fixed joint returns and
\* leaves the chain, its thetas, T_dh and T_actual, as it was; with a variable joint
\* it writes that one slot of thetas, leaves every other slot and the length, and
\* recomputes T_dh and T_actual from the new thetas.
C29_SetThetaGuarded ==
    [][SetThetaStep =>
          /\ ret'.kind = "return"
          /\ ~NamesVariableJoint => model' = model
          /\ NamesVariableJoint =>
                /\ model'.thetas = [model.thetas EXCEPT ![call'.joint_idx + 1] = call'.value]
                /\ Len(model'.thetas) = model.n_joints
                /\ forward_kinematics(model.dh_rows, model'.thetas, model.offsets)
                      = [ok |-> TRUE, T_dh |-> model'.T_dh, T_actual |-> model'.T_actual]
                /\ model'.dh_rows = model.dh_rows
                /\ model'.offsets = model.offsets
                /\ model'.n_joints = model.n_joints]_vars

\* C29 witness: a set_theta call with a non-zero value naming a fixed joint, or a
\* joint the chain has not, has returned on a chain moved before: the slot named, if
\* there is one, holds another value and a variable joint holds a non-zero angle.
C29_Witness ==
    /\ model.ok
    /\ call.op = "set_theta"
    /\ call.value # 0
    /\ (call.joint_idx + 1) \notin model.variable_joints
    /\ (call.joint_idx + 1) \in 1..model.n_joints =>
           model.thetas[call.joint_idx + 1] # call.value
    /\ \E i \in model.variable_joints : model.thetas[i] # 0
    /\ ret.kind = "return"

====
